---- MODULE Spec2Model ----
(***************************************************************************)
(* Model of dune-api: the resource path algebra (resourcepath.ts), the     *)
(* in-memory store Skills (data.ts) and the handlers registerResource      *)
(* binds to the routes of a resource (resource.ts).                        *)
(*                                                                         *)
(* A JavaScript string of the path algebra is a sequence of one-character  *)
(* strings, so that "x/y" is <<"x", "/", "y">> and the empty string is     *)
(* <<>>.  A reference is an integer: NULL (null), UNDEF (undefined) or the *)
(* index of a node object in heap.  Objects are never freed, so heap only  *)
(* grows.  A call either returns ("ok") or throws ("SyntaxError",          *)
(* "TypeError").                                                           *)
(*                                                                         *)
(* PathSpec is a client of the path algebra, StoreSpec a client of the     *)
(* store, CrudSpec and PatchSpec are the requests to a bound resource,     *)
(* ResourceSpec the requests to Skills and to resources that fail, and     *)
(* ConcurrentSpec full updates that wait for their decoder while other     *)
(* requests are handled.                                                   *)
(***************************************************************************)
EXTENDS Integers, Sequences, FiniteSets, TLC

VARIABLES heap, last, skills, issued, binding, event, inflight

vars == <<heap, last, skills, issued, binding, event, inflight>>

pathVars == <<heap, last>>

apiVars == <<skills, issued, binding, event, inflight>>

\* ------------------------------------------------------------------------
\* Bounds and inputs
\* ------------------------------------------------------------------------

\* Largest number of node objects allocated in one behaviour.
MaxNodes == 3

\* Number of keys randomUUID can hand out in one behaviour.
MaxUuids == 2

\* The largest number of requests waiting for their decoder at one time.
MaxInflight == 2

NULL == 0
UNDEF == -1

\* Segment names handed to the factory.
SegmentNames == { <<>>, <<".">>, <<".", ".">>, <<"a">> }

\* Strings handed to resolve.
PathStrings ==
    { <<>>, <<".", ".">>,
      <<"x", "/", "y", "/", ".", ".", "/", "z">>,
      <<"x", "/", "z">>,
      <<"/", "a", "/", "b">>,
      <<".", ".", "/", ".", ".">> }

\* The relative step names, [ "..", "." ] in the source.
DotNames == { <<".", ".">>, <<".">> }

\* ------------------------------------------------------------------------
\* Values
\* ------------------------------------------------------------------------

IsNode(ref) == ref > 0

\* The references a caller can hold in a state: null, undefined, any node.
Refs(h) == {NULL, UNDEF} \cup (1 .. Len(h))

Return(h, val) == [kind |-> "ok", val |-> val, heap |-> h]

Throw(h, kind) == [kind |-> kind, val |-> UNDEF, heap |-> h]

\* ------------------------------------------------------------------------
\* isAbsolute / isRelative
\* ------------------------------------------------------------------------

\* The while loop of isAbsolute and of isRelative. Every node is built by
\* the factory, which always sets both flags to a boolean, so the test
\* cursor.absolute != null (cursor.relative != null) holds at every node and
\* the loop runs to the end of the chain.
RECURSIVE WalkCursor(_, _)
WalkCursor(h, cursor) ==
    IF IsNode(cursor) THEN WalkCursor(h, h[cursor].parent) ELSE cursor

\* Variant of isAbsolute that answers cursor === null at the end of the chain
\* instead of reading a property of the cursor.
isAbsoluteNullSafe(h, path) ==
    LET cursor == WalkCursor(h, path) IN
    IF ~IsNode(cursor)
    THEN [kind |-> "ok", val |-> cursor = NULL]
    ELSE [kind |-> "ok", val |-> h[cursor].absolute]

\* The return statement reads cursor.absolute; the cursor the loop leaves is
\* null or undefined, and reading a property of either throws a TypeError.
isAbsolute(h, path) ==
    LET cursor == WalkCursor(h, path) IN
    IF ~IsNode(cursor)
    THEN [kind |-> "TypeError", val |-> FALSE]
    ELSE [kind |-> "ok", val |-> h[cursor].absolute]

isRelative(h, path) ==
    LET cursor == WalkCursor(h, path) IN
    IF ~IsNode(cursor)
    THEN [kind |-> "TypeError", val |-> FALSE]
    ELSE [kind |-> "ok", val |-> h[cursor].relative]

\* ------------------------------------------------------------------------
\* The factory ResourcePath(name, parent)
\* ------------------------------------------------------------------------

\* Variant of NewNode that drops the parent argument.
NewNodeNoParent(h, name, parent) ==
    [name |-> name,
     parent |-> UNDEF,
     absolute |-> IF ~IsNode(parent) THEN parent = NULL ELSE h[parent].absolute,
     relative |-> IF ~IsNode(parent) THEN parent = UNDEF ELSE h[parent].relative]

\* Variant of NewNode that derives the flags from the parent argument alone
\* and does not inherit them from a parent node.
NewNodeOwnFlags(h, name, parent) ==
    [name |-> name,
     parent |-> parent,
     absolute |-> parent = NULL,
     relative |-> parent = UNDEF]

\* The object literal the factory returns.
NewNode(h, name, parent) ==
    [name |-> name,
     parent |-> parent,
     absolute |-> IF ~IsNode(parent) THEN parent = NULL ELSE h[parent].absolute,
     relative |-> IF ~IsNode(parent) THEN parent = UNDEF ELSE h[parent].relative]

\* Variant of Allocate that renames the parent object instead of building a
\* new object when a parent exists.
AllocateInPlace(h, name, parent) ==
    IF IsNode(parent)
    THEN Return([h EXCEPT ![parent].name = name], parent)
    ELSE Return(Append(h, NewNode(h, name, parent)), Len(h) + 1)

Allocate(h, name, parent) ==
    Return(Append(h, NewNode(h, name, parent)), Len(h) + 1)

\* Variant of the factory without the empty-name check.
ResourcePathNoEmptyCheck(h, name, parent) ==
    IF name \in DotNames
    THEN LET abs == isAbsolute(h, parent) IN
         IF abs.kind # "ok" THEN Throw(h, abs.kind)
         ELSE IF abs.val THEN Throw(h, "SyntaxError")
         ELSE IF IsNode(parent) THEN Return(h, parent)
         ELSE Allocate(h, name, parent)
    ELSE Allocate(h, name, parent)

ResourcePath(h, name, parent) ==
    IF name = <<>>
    THEN Throw(h, "SyntaxError")
    ELSE IF name \in DotNames
    THEN LET abs == isAbsolute(h, parent) IN
         IF abs.kind # "ok" THEN Throw(h, abs.kind)
         ELSE IF abs.val THEN Throw(h, "SyntaxError")
         ELSE IF IsNode(parent) THEN Return(h, parent)
         ELSE Allocate(h, name, parent)
    ELSE Allocate(h, name, parent)

\* ------------------------------------------------------------------------
\* resolvePath(current, path)
\* ------------------------------------------------------------------------

\* The first loop of resolvePath: the names of the chain, root to leaf.
RECURSIVE PathResources(_, _)
PathResources(h, cursor) ==
    IF IsNode(cursor)
    THEN Append(PathResources(h, h[cursor].parent), h[cursor].name)
    ELSE <<>>

\* One call of the forEach callback; st carries the local variable parent,
\* the heap, and the error thrown so far.
ReplaySegment(st, segment) ==
    IF st.kind # "ok" THEN st
    ELSE IF segment = <<".">> THEN st
    ELSE IF segment = <<".", ".">>
    THEN IF ~IsNode(st.val)
         THEN Throw(st.heap, "SyntaxError")
         ELSE Return(st.heap, st.heap[st.val].parent)
    ELSE IF segment = <<>> THEN Throw(st.heap, "SyntaxError")
    ELSE ResourcePath(st.heap, segment, st.val)

RECURSIVE Replay(_, _)
Replay(st, segments) ==
    IF segments = <<>> THEN st
    ELSE Replay(ReplaySegment(st, Head(segments)), Tail(segments))

\* The part of resolvePath after childPath is known. The replay starts
\* from the local variable parent, which is initialised from cursor, that
\* is from undefined; the parameter current is not read.
ResolveChild(h, current, childPath) ==
    LET pathResources == PathResources(h, childPath)
        cursor == WalkCursor(h, childPath)
    IN  IF cursor = UNDEF
        THEN Replay(Return(h, cursor), pathResources)
        ELSE IF \E i \in DOMAIN pathResources : pathResources[i] \in DotNames
        THEN Throw(h, "SyntaxError")
        ELSE Return(h, childPath)

\* resolvePath with a ResourcePath argument.
resolvePath(h, current, path) == ResolveChild(h, current, path)

\* resolvePath with a string argument: childPath = ResourcePath(path).
resolvePathString(h, current, str) ==
    LET child == ResourcePath(h, str, UNDEF) IN
    IF child.kind # "ok" THEN child
    ELSE ResolveChild(child.heap, current, child.val)

\* ------------------------------------------------------------------------
\* The in-memory store Skills (data.skills)
\* ------------------------------------------------------------------------
\* A key is an integer: 1 and 2 stand for the keys "1" and "2" of the initial
\* table, the integers above them for the strings randomUUID returns.
\* data.skills is a Map: a sequence of <<key, value>> entries in insertion
\* order. A promise is the record of how it settles.

InitialKeys == {1, 2}

UuidKeys == 3 .. (2 + MaxUuids)

Keys == InitialKeys \cup UuidKeys

NoKey == 0

Skill(name, description) == [name |-> name, description |-> description]

NoValue == Skill("", "")

Battle == Skill("Battle", "An ability to fight or command.")

Communication == Skill("Communication", "Communicate with other people")

InitialSkills == << <<1, Battle>>, <<2, Communication>> >>

\* Map.prototype.has / get / set / delete / entries.
MapHas(m, key) == \E i \in DOMAIN m : m[i][1] = key

MapGet(m, key) == m[CHOOSE i \in DOMAIN m : m[i][1] = key][2]

MapSet(m, key, value) ==
    IF MapHas(m, key)
    THEN [i \in DOMAIN m |-> IF m[i][1] = key THEN <<key, value>> ELSE m[i]]
    ELSE Append(m, <<key, value>>)

\* Variant of delete that also drops every entry inserted after the key.
MapDeleteFrom(m, key) ==
    SubSeq(m, 1, (CHOOSE i \in DOMAIN m : m[i][1] = key) - 1)

MapDelete(m, key) == SelectSeq(m, LAMBDA entry : entry[1] # key)

MapKeys(m) == {m[i][1] : i \in DOMAIN m}

\* The settlement of a promise returned by the store, with the table and the
\* set of keys handed out so far as the call leaves them.
Settled(kind, error, rkey, rvalue, rbool, rentries, m, used) ==
    [kind |-> kind, error |-> error, rkey |-> rkey, rvalue |-> rvalue,
     rbool |-> rbool, rentries |-> rentries, skills |-> m, issued |-> used]

Rejected(error, m, used) ==
    Settled("rejected", error, NoKey, NoValue, FALSE, <<>>, m, used)

\* The call of an operation that throws instead of returning a promise.
Threw(error, m, used) ==
    Settled("thrown", error, NoKey, NoValue, FALSE, <<>>, m, used)

SkillsGetAll(m, used) ==
    Settled("resolved", "none", NoKey, NoValue, FALSE, m, m, used)

SkillsGet(m, used, key) ==
    IF MapHas(m, key)
    THEN Settled("resolved", "none", NoKey, MapGet(m, key), FALSE, <<>>, m, used)
    ELSE Rejected("RangeError", m, used)

\* Variant of update that sets the entry without testing that the key exists.
SkillsUpdateUpsert(m, used, key, value) ==
    Settled("resolved", "none", NoKey, NoValue, FALSE, <<>>,
            MapSet(m, key, value), used)

SkillsUpdate(m, used, key, value) ==
    IF MapHas(m, key)
    THEN Settled("resolved", "none", NoKey, NoValue, FALSE, <<>>,
                 MapSet(m, key, value), used)
    ELSE Rejected("RangeError", m, used)

\* Variant of delete that resolves true and leaves the entry in the table.
SkillsDeleteKeepsEntry(m, used, key) ==
    IF MapHas(m, key)
    THEN Settled("resolved", "none", NoKey, NoValue, TRUE, <<>>, m, used)
    ELSE Rejected("RangeError", m, used)

SkillsDelete(m, used, key) ==
    IF MapHas(m, key)
    THEN Settled("resolved", "none", NoKey, NoValue, TRUE, <<>>,
                 MapDelete(m, key), used)
    ELSE Rejected("RangeError", m, used)

\* randomUUID(): a version 4 UUID never equals "1" or "2", and the generator
\* is taken not to repeat a value: any key not handed out before.
RandomUuids(used) == UuidKeys \ used

\* Variant of create that numbers the entries: the key is the size of the
\* table plus one.
SkillsCreateCounting(m, used, id, value) ==
    Settled("resolved", "none", Len(m) + 1, NoValue, FALSE, <<>>,
            MapSet(m, Len(m) + 1, value), used \cup {id})

\* create with id the outcome of randomUUID().
SkillsCreate(m, used, id, value) ==
    Settled("resolved", "none", id, NoValue, FALSE, <<>>,
            MapSet(m, id, value), used \cup {id})

\* ------------------------------------------------------------------------
\* The state machine: a client calling the exported functions
\* ------------------------------------------------------------------------

\* The record of the most recent call.
Call(op, name, parent, current, path, str, kind, val, bool, alloc) ==
    [op |-> op, name |-> name, parent |-> parent, current |-> current,
     path |-> path, str |-> str, kind |-> kind, val |-> val, bool |-> bool,
     alloc |-> alloc]

NoCall == Call("none", <<>>, UNDEF, UNDEF, UNDEF, <<>>, "ok", UNDEF, FALSE, 0)

\* What a handler sent: the status, the names of the fields of the JSON body
\* (none for a raw payload or an empty body), and the values of its value and
\* resource fields.
Response(status, fields, echo, rname) ==
    [status |-> status, fields |-> fields, echo |-> echo, rname |-> rname]

NoBody == [array |-> FALSE, name |-> "", description |-> ""]

NoResponse == Response(0, {}, NoBody, "")

\* The record of the most recent store call or request: the arguments, the
\* settlement of the last promise of the store it waited for, the response
\* and the number of responses sent, and the operations of the store and the
\* decoders of change lists it invoked, in order.
Event(op, key, body, ctype, batch, settled, resp, calls) ==
    [op |-> op, key |-> key, body |-> body, ctype |-> ctype, batch |-> batch,
     kind |-> settled.kind, error |-> settled.error, rkey |-> settled.rkey,
     rvalue |-> settled.rvalue, rbool |-> settled.rbool,
     rentries |-> settled.rentries,
     status |-> resp.status, fields |-> resp.fields, echo |-> resp.echo,
     rname |-> resp.rname, sent |-> IF resp = NoResponse THEN 0 ELSE 1,
     calls |-> calls]

NoEvent ==
    Event("none", NoKey, NoBody, "", <<>>,
          Settled("none", "none", NoKey, NoValue, FALSE, <<>>, <<>>, {}),
          NoResponse, <<>>)

\* server.ts binds Skills, which has no adjust, with a synchronous parser.
ServerBinding == [parser |-> "sync", record |-> FALSE, store |-> "Skills"]

ApiIdle ==
    /\ skills = InitialSkills
    /\ issued = {}
    /\ event = NoEvent
    /\ inflight = <<>>

PathInit ==
    /\ heap = <<>>
    /\ last = NoCall
    /\ ApiIdle
    /\ binding = ServerBinding

Create ==
    \E name \in SegmentNames, parent \in Refs(heap) :
        LET r == ResourcePath(heap, name, parent) IN
        /\ Len(r.heap) <= MaxNodes
        /\ heap' = r.heap
        /\ last' = Call("create", name, parent, UNDEF, UNDEF, <<>>,
                        r.kind, r.val, FALSE, Len(r.heap) - Len(heap))
        /\ UNCHANGED apiVars

Resolve ==
    \E current \in Refs(heap), path \in 1 .. Len(heap) :
        LET r == resolvePath(heap, current, path) IN
        /\ Len(r.heap) <= MaxNodes
        /\ heap' = r.heap
        /\ last' = Call("resolve", <<>>, UNDEF, current, path, <<>>,
                        r.kind, r.val, FALSE, Len(r.heap) - Len(heap))
        /\ UNCHANGED apiVars

ResolveString ==
    \E current \in Refs(heap), str \in PathStrings :
        LET r == resolvePathString(heap, current, str) IN
        /\ Len(r.heap) <= MaxNodes
        /\ heap' = r.heap
        /\ last' = Call("resolveString", <<>>, UNDEF, current, UNDEF, str,
                        r.kind, r.val, FALSE, Len(r.heap) - Len(heap))
        /\ UNCHANGED apiVars

IsAbsolute ==
    \E path \in Refs(heap) :
        LET r == isAbsolute(heap, path) IN
        /\ heap' = heap
        /\ last' = Call("isAbsolute", <<>>, UNDEF, UNDEF, path, <<>>,
                        r.kind, UNDEF, r.val, 0)
        /\ UNCHANGED apiVars

IsRelative ==
    \E path \in Refs(heap) :
        LET r == isRelative(heap, path) IN
        /\ heap' = heap
        /\ last' = Call("isRelative", <<>>, UNDEF, UNDEF, path, <<>>,
                        r.kind, UNDEF, r.val, 0)
        /\ UNCHANGED apiVars

PathNext == Create \/ Resolve \/ ResolveString \/ IsAbsolute \/ IsRelative

PathSpec == PathInit /\ [][PathNext]_vars

\* ------------------------------------------------------------------------
\* The state machine: a client calling the operations of Skills
\* ------------------------------------------------------------------------

Pilot == Skill("Pilot", "Fly an ornithopter")

\* Values handed to create and update.
StoreValues == {Battle, Pilot}

StoreEvent(op, key, value, r) ==
    Event(op, key, [array |-> FALSE, name |-> value.name,
                    description |-> value.description],
          "", <<>>, r, NoResponse, <<op>>)

StoreStep(op, key, value, r) ==
    /\ skills' = r.skills
    /\ issued' = r.issued
    /\ event' = StoreEvent(op, key, value, r)
    /\ UNCHANGED <<binding, heap, last, inflight>>

StoreInit ==
    /\ heap = <<>>
    /\ last = NoCall
    /\ ApiIdle
    /\ binding = ServerBinding

StoreGetAll == StoreStep("getAll", NoKey, NoValue, SkillsGetAll(skills, issued))

StoreGet ==
    \E key \in Keys : StoreStep("get", key, NoValue, SkillsGet(skills, issued, key))

StoreUpdate ==
    \E key \in Keys, value \in StoreValues :
        StoreStep("update", key, value, SkillsUpdate(skills, issued, key, value))

StoreDelete ==
    \E key \in Keys :
        StoreStep("delete", key, NoValue, SkillsDelete(skills, issued, key))

StoreCreate ==
    \E value \in StoreValues, id \in RandomUuids(issued) :
        StoreStep("create", NoKey, value, SkillsCreate(skills, issued, id, value))

StoreNext == StoreGetAll \/ StoreGet \/ StoreUpdate \/ StoreDelete \/ StoreCreate

StoreSpec == StoreInit /\ [][StoreNext]_vars

\* ------------------------------------------------------------------------
\* registerResource: the handlers of the routes
\* ------------------------------------------------------------------------
\* A handler is modelled with every continuation it registers: the store
\* settles its promises inside the call, and the continuations of one request
\* run before the next request is taken.

ResourceName == "skill"

\* The parser server.ts binds: it throws for an array and builds a Skill
\* from the fields name and description otherwise.
Thrown(error) == [how |-> "throw", error |-> error, value |-> NoValue]

Returned(value) == [how |-> "return", error |-> "none", value |-> value]

\* Variant of the bound parser that forgets the description.
SkillParserNoDescription(body) ==
    IF body.array THEN Thrown("SyntaxError")
    ELSE Returned(Skill(body.name, ""))

SkillParser(body) ==
    IF body.array THEN Thrown("SyntaxError")
    ELSE Returned(Skill(body.name, body.description))

\* The call parser(request.body) for the three kinds of parser argument:
\* undefined ("none"), a Parser ("sync"), and an AsyncParser ("async"), which
\* returns the promise of what the Parser returns or throws.
ParserCall(kind, body) ==
    IF kind = "none" THEN Thrown("TypeError")
    ELSE IF kind = "sync" THEN SkillParser(body)
    ELSE [SkillParser(body) EXCEPT !.how = "promise"]

\* parseBody: resolve(parser(request.body)), or reject(err) when the call
\* throws; resolving with a promise adopts its settlement.
parseBody(kind, body) ==
    LET p == ParserCall(kind, body) IN
    IF p.how = "throw" THEN [kind |-> "rejected", error |-> p.error, value |-> NoValue]
    ELSE IF p.how = "return" THEN [kind |-> "resolved", error |-> "none", value |-> p.value]
    ELSE IF p.error = "none" THEN [kind |-> "resolved", error |-> "none", value |-> p.value]
    ELSE [kind |-> "rejected", error |-> p.error, value |-> NoValue]

\* Variant of the test if (parser) that always succeeds.
HasParserAlways(b) == TRUE

\* The test if (parser) of the create and update handlers.
HasParser(b) == b.parser # "none"

\* No promise of the store was waited for.
Unsettled(m, used) ==
    Settled("none", "none", NoKey, NoValue, FALSE, <<>>, m, used)

\* res.json(payload) and res.status(n).json(payload) with a raw payload, and
\* res.status(204).end().
PayloadResponse(status) == Response(status, {}, NoBody, "")

NotFoundResponse == Response(404, {"message", "resource"}, NoBody, ResourceName)

UnsupportedOperationResponse ==
    Response(405, {"message", "resource"}, NoBody, ResourceName)

\* Variant of the invalid-input response without the value field.
InvalidBodyResponseNoValue(body) ==
    Response(400, {"message", "resource"}, NoBody, ResourceName)

InvalidBodyResponse(body) ==
    Response(400, {"message", "resource", "value"}, body, ResourceName)

\* What a handler did: the settlement it ended on (with the store as it
\* leaves it), the response it sent and the store operations it invoked.
Handled(settled, resp, calls) ==
    [settled |-> settled, resp |-> resp, calls |-> calls]

\* The resource argument of registerResource: Skills, or a Resource whose
\* operations throw, or one whose promises reject with an Error that is not
\* a RangeError. settled is what Skills answers.
Resources == {"Skills", "throwing", "rejecting"}

ResourceCall(b, m, used, settled) ==
    IF b.store = "Skills" THEN settled
    ELSE IF b.store = "throwing" THEN Threw("Error", m, used)
    ELSE Rejected("Error", m, used)

\* The body of the 500 answers: { message, resource } and, in the catch
\* blocks of the list and delete handlers, { message, resuorce }.
UnavailableResponse ==
    Response(500, {"message", "resource"}, NoBody, ResourceName)

UnavailableResponseMisspelt ==
    Response(500, {"message", "resuorce"}, NoBody, "")

\* app.get(path)
ListHandler(m, used, b) ==
    LET r == ResourceCall(b, m, used, SkillsGetAll(m, used)) IN
    IF r.kind = "thrown"
    THEN Handled(r, UnavailableResponseMisspelt, <<"getAll">>)
    ELSE IF r.kind = "resolved"
    THEN Handled(r, PayloadResponse(200), <<"getAll">>)
    ELSE Handled(r, UnavailableResponse, <<"getAll">>)

\* app.get(path + "/:id")
GetHandler(m, used, b, key) ==
    LET r == ResourceCall(b, m, used, SkillsGet(m, used, key)) IN
    IF r.kind = "thrown"
    THEN Handled(r, UnavailableResponse, <<"get">>)
    ELSE IF r.kind = "resolved"
    THEN Handled(r, PayloadResponse(200), <<"get">>)
    ELSE Handled(r, NotFoundResponse, <<"get">>)

\* app.post(path); id is the outcome of randomUUID() in Skills.create. A
\* throw of create or update inside the async callback rejects its promise,
\* and the catch answers it like a rejection.
CreateHandler(m, used, b, id, body) ==
    IF HasParser(b)
    THEN LET parsed == parseBody(b.parser, body) IN
         IF parsed.kind = "resolved"
         THEN LET r == ResourceCall(b, m, used,
                                     SkillsCreate(m, used, id, parsed.value)) IN
              IF r.kind = "resolved"
              THEN Handled(r, PayloadResponse(201), <<"create">>)
              ELSE Handled(r, InvalidBodyResponse(body), <<"create">>)
         ELSE Handled(Rejected(parsed.error, m, used),
                      InvalidBodyResponse(body), <<>>)
    ELSE Handled(Unsettled(m, used), UnsupportedOperationResponse, <<>>)

\* app.post(path + "/:id")
UpdateHandler(m, used, b, key, body) ==
    IF HasParser(b)
    THEN LET parsed == parseBody(b.parser, body) IN
         IF parsed.kind = "resolved"
         THEN LET r == ResourceCall(b, m, used,
                                     SkillsUpdate(m, used, key, parsed.value)) IN
              IF r.kind = "resolved"
              THEN Handled(r, PayloadResponse(204), <<"update">>)
              ELSE Handled(r, InvalidBodyResponse(body), <<"update">>)
         ELSE Handled(Rejected(parsed.error, m, used),
                      InvalidBodyResponse(body), <<>>)
    ELSE Handled(Unsettled(m, used), UnsupportedOperationResponse, <<>>)

\* app.delete(path + "/:id")
DeleteHandler(m, used, b, key) ==
    LET r == ResourceCall(b, m, used, SkillsDelete(m, used, key)) IN
    IF r.kind = "thrown"
    THEN Handled(r, UnavailableResponseMisspelt, <<"delete">>)
    ELSE IF r.kind = "resolved"
    THEN Handled(r, PayloadResponse(200), <<"delete">>)
    ELSE Handled(r, NotFoundResponse, <<"delete">>)

\* ------------------------------------------------------------------------
\* The state machine: requests to the list, get, create, update and delete
\* routes of a bound resource
\* ------------------------------------------------------------------------

\* Request bodies: an object with the fields of a skill, and an array.
PilotBody == [array |-> FALSE, name |-> "Pilot", description |-> "Fly an ornithopter"]

ArrayBody == [array |-> TRUE, name |-> "", description |-> ""]

Bodies == {PilotBody, ArrayBody}

\* The parser arguments registerResource is called with.
CrudBindings ==
    [parser : {"none", "sync", "async"}, record : {FALSE}, store : {"Skills"}]

RequestStep(op, key, body, ctype, batch, h) ==
    /\ skills' = h.settled.skills
    /\ issued' = h.settled.issued
    /\ event' = Event(op, key, body, ctype, batch, h.settled, h.resp, h.calls)
    /\ UNCHANGED <<binding, heap, last, inflight>>

CrudInit ==
    /\ heap = <<>>
    /\ last = NoCall
    /\ ApiIdle
    /\ binding \in CrudBindings

ListRequest ==
    RequestStep("GET list", NoKey, NoBody, "", <<>>, ListHandler(skills, issued, binding))

GetRequest ==
    \E key \in Keys :
        RequestStep("GET item", key, NoBody, "", <<>>,
                    GetHandler(skills, issued, binding, key))

\* The store's create runs only when a parser is bound and the body decodes;
\* only then is a key drawn from randomUUID().
CreateRequest ==
    \E body \in Bodies :
        \E id \in IF HasParser(binding) /\ parseBody(binding.parser, body).kind = "resolved"
                  THEN RandomUuids(issued) ELSE {NoKey} :
            RequestStep("POST create", NoKey, body, "", <<>>,
                        CreateHandler(skills, issued, binding, id, body))

UpdateRequest ==
    \E key \in Keys, body \in Bodies :
        RequestStep("POST update", key, body, "", <<>>,
                    UpdateHandler(skills, issued, binding, key, body))

DeleteRequest ==
    \E key \in Keys :
        RequestStep("DELETE item", key, NoBody, "", <<>>,
                    DeleteHandler(skills, issued, binding, key))

CrudNext ==
    ListRequest \/ GetRequest \/ CreateRequest \/ UpdateRequest \/ DeleteRequest

CrudSpec == CrudInit /\ [][CrudNext]_vars

\* ------------------------------------------------------------------------
\* The partial update: change descriptors, adjust, and the PATCH handler
\* ------------------------------------------------------------------------

\* A ResourceChange; resource is the name of the addressed property.
Change(type, resource, value) ==
    [type |-> type, resource |-> resource, value |-> value]

\* RecordResource declares properties, validValue, changeValue and adjust and
\* no resource of the repository implements them. They are modelled for a
\* record of skills: the properties are name and description, a name must
\* not be empty, remove clears a property, and adjust applies a batch to the
\* value of an existing key only if every descriptor is valid.
Properties == {"name", "description"}

ValidValue(source, property, value) ==
    property \in Properties /\ (property = "name" => value # "")

ValidChange(source, change) ==
    IF change.type = "remove"
    THEN change.resource = "description"
    ELSE ValidValue(source, change.resource, change.value)

ChangeValue(source, property, value) ==
    IF property = "name" THEN Skill(value, source.description)
    ELSE Skill(source.name, value)

RECURSIVE ApplyChanges(_, _)
ApplyChanges(source, changes) ==
    IF changes = <<>> THEN source
    ELSE LET change == Head(changes) IN
         ApplyChanges(ChangeValue(source, change.resource,
                                  IF change.type = "remove" THEN "" ELSE change.value),
                      Tail(changes))

Adjust(m, used, key, changes) ==
    IF ~MapHas(m, key) THEN Rejected("RangeError", m, used)
    ELSE IF \E i \in DOMAIN changes : ~ValidChange(MapGet(m, key), changes[i])
    THEN Rejected("SyntaxError", m, used)
    ELSE Settled("resolved", "none", NoKey, NoValue, FALSE, <<>>,
                 MapSet(m, key, ApplyChanges(MapGet(m, key), changes)), used)

\* adjust called with undefined, the value the promise of adjust resolves to,
\* in place of a list.
AdjustUndefined(m, used, key) == Rejected("TypeError", m, used)

\* Variant of isRecordResource that, like its neighbour isRecord, returns its
\* argument without testing for adjust.
isRecord(b) == TRUE

\* isRecordResource: "adjust" in source.
isRecordResource(b) == b.record

\* parseJsonResourceChanges and parseXmlResourceChanges reject every request.
Decoded(kind, error, changes) ==
    [kind |-> kind, error |-> error, changes |-> changes]

parseJsonResourceChanges(batch) == Decoded("rejected", "Error", <<>>)

parseXmlResourceChanges(batch) == Decoded("rejected", "Error", <<>>)

\* The promise of parseResourceChanges: how it settles, the store as it is
\* then, and the store operations invoked.
Parsed(settled, calls) == [settled |-> settled, calls |-> calls]

\* resolve(decoder(request).then(changes => target.adjust(id, changes)))
DecodeThenAdjust(m, used, key, decoder, decoded) ==
    IF decoded.kind = "resolved"
    THEN Parsed(Adjust(m, used, key, decoded.changes), <<decoder, "adjust">>)
    ELSE Parsed(Rejected(decoded.error, m, used), <<decoder>>)

\* Variant of parseResourceChanges whose default case is the JSON decoder.
parseResourceChangesDefaultJson(m, used, b, key, ctype, batch) ==
    IF isRecordResource(b)
    THEN IF ctype = "application/xml"
         THEN DecodeThenAdjust(m, used, key, "parseXmlResourceChanges",
                               parseXmlResourceChanges(batch))
         ELSE DecodeThenAdjust(m, used, key, "parseJsonResourceChanges",
                               parseJsonResourceChanges(batch))
    ELSE Parsed(Rejected("Error", m, used), <<>>)

parseResourceChanges(m, used, b, key, ctype, batch) ==
    IF isRecordResource(b)
    THEN IF ctype = "application/xml"
         THEN DecodeThenAdjust(m, used, key, "parseXmlResourceChanges",
                               parseXmlResourceChanges(batch))
         ELSE IF ctype = "application/json"
         THEN DecodeThenAdjust(m, used, key, "parseJsonResourceChanges",
                               parseJsonResourceChanges(batch))
         ELSE Parsed(Rejected("TypeError", m, used), <<>>)
    ELSE Parsed(Rejected("Error", m, used), <<>>)

\* Variant of sendInvalidResourceRequestMessage that answers 404.
InvalidRequestResponseNotFound == Response(404, {"message", "resource"}, NoBody, ResourceName)

\* sendInvalidResourceRequestMessage
InvalidRequestResponse == Response(400, {"message", "resource"}, NoBody, ResourceName)

\* app.patch(path + ":id"). The then-callback passes what the promise of
\* parseResourceChanges resolved to, the result of adjust, to adjust again.
PatchHandler(m, used, b, key, ctype, batch) ==
    IF isRecordResource(b)
    THEN LET p == parseResourceChanges(m, used, b, key, ctype, batch) IN
         IF p.settled.kind = "resolved"
         THEN LET a == AdjustUndefined(p.settled.skills, p.settled.issued, key) IN
              IF a.kind = "resolved"
              THEN Handled(a, PayloadResponse(204), p.calls \o <<"adjust">>)
              ELSE Handled(a, NotFoundResponse, p.calls \o <<"adjust">>)
         ELSE Handled(p.settled, InvalidRequestResponse, p.calls)
    ELSE Handled(Unsettled(m, used), UnsupportedOperationResponse, <<>>)

\* ------------------------------------------------------------------------
\* The state machine: PATCH requests, with create and delete requests that
\* change the keys of the store
\* ------------------------------------------------------------------------

ContentTypes == {"application/json", "application/xml", "text/plain"}

\* Change lists of request bodies: a valid one, a valid descriptor followed
\* by one with a rejected value, and one that addresses an unknown property.
ValidBatch == << Change("update", "name", "Scout") >>

MixedBatch == << Change("update", "name", "Scout"), Change("update", "name", "") >>

UnknownBatch == << Change("update", "rank", "Bashar") >>

Batches == {ValidBatch, MixedBatch, UnknownBatch}

PatchBindings == [parser : {"sync"}, record : BOOLEAN, store : {"Skills"}]

PatchInit ==
    /\ heap = <<>>
    /\ last = NoCall
    /\ ApiIdle
    /\ binding \in PatchBindings

PatchRequest ==
    \E key \in Keys, ctype \in ContentTypes, batch \in Batches :
        RequestStep("PATCH item", key, NoBody, ctype, batch,
                    PatchHandler(skills, issued, binding, key, ctype, batch))

PatchNext == PatchRequest \/ CreateRequest \/ DeleteRequest

PatchSpec == PatchInit /\ [][PatchNext]_vars

\* ------------------------------------------------------------------------
\* The state machine: requests to the routes main/resource.ts registers, for
\* Skills and for resources that fail
\* ------------------------------------------------------------------------

\* app.put(path + ":id"): the body of the handler is empty.
PutHandler(m, used) == Handled(Unsettled(m, used), NoResponse, <<>>)

ResourceBindings == [parser : {"sync"}, record : {FALSE}, store : Resources]

ResourceInit ==
    /\ heap = <<>>
    /\ last = NoCall
    /\ ApiIdle
    /\ binding \in ResourceBindings

PutRequest ==
    \E key \in Keys :
        RequestStep("PUT item", key, NoBody, "", <<>>, PutHandler(skills, issued))

ResourceNext ==
    \/ ListRequest \/ GetRequest \/ CreateRequest \/ UpdateRequest
    \/ DeleteRequest \/ PutRequest

ResourceSpec == ResourceInit /\ [][ResourceNext]_vars

\* ------------------------------------------------------------------------
\* The state machine: full-update requests whose decoder settles in a later
\* turn of the event loop, interleaved with delete requests
\* ------------------------------------------------------------------------
\* A handler runs to the point where it waits for a promise that is not yet
\* settled. The promises of Skills settle inside the call, so the only wait
\* is for an asynchronous decoder: the then-callback that calls update runs
\* in a later turn, and other requests are handled in between.

\* A request waiting for its decoder, or answered. present is history: it
\* records if the key was in the store when the request arrived, and no
\* handler reads it.
Waiting(op, key, body, present) ==
    [op |-> op, key |-> key, body |-> body, present |-> present,
     stage |-> "decoding"]

StillDecoding(requests) ==
    SelectSeq(requests, LAMBDA request : request.stage = "decoding")

ConcurrentBindings == [parser : {"async"}, record : {FALSE}, store : {"Skills"}]

ConcurrentInit ==
    /\ heap = <<>>
    /\ last = NoCall
    /\ ApiIdle
    /\ binding \in ConcurrentBindings

\* app.post(path + "/:id") up to parseBody(req, parser).then(...).catch(...):
\* the handler returns with the decoder's promise pending.
UpdateReceived ==
    \E key \in InitialKeys :
        /\ HasParser(binding)
        /\ Len(StillDecoding(inflight)) < MaxInflight
        /\ inflight' = Append(StillDecoding(inflight),
                              Waiting("POST update", key, PilotBody,
                                      MapHas(skills, key)))
        /\ event' = Event("POST update", key, PilotBody, "", <<>>,
                          Unsettled(skills, issued), NoResponse, <<>>)
        /\ UNCHANGED <<skills, issued, binding, heap, last>>

\* The decoder's promise settles: the then-callback calls update on the
\* store as it is now, and the response is sent.
UpdateDecoded ==
    \E i \in DOMAIN inflight :
        /\ inflight[i].stage = "decoding"
        /\ LET h == UpdateHandler(skills, issued, binding, inflight[i].key,
                                  inflight[i].body) IN
           /\ skills' = h.settled.skills
           /\ issued' = h.settled.issued
           /\ event' = Event(inflight[i].op, inflight[i].key, inflight[i].body,
                             "", <<>>, h.settled, h.resp, h.calls)
        /\ inflight' = [inflight EXCEPT ![i].stage = "answered"]
        /\ UNCHANGED <<binding, heap, last>>

ConcurrentNext == UpdateReceived \/ UpdateDecoded \/ DeleteRequest

ConcurrentSpec == ConcurrentInit /\ [][ConcurrentNext]_vars

\* ------------------------------------------------------------------------
\* Vocabulary of the properties
\* ------------------------------------------------------------------------

\* The '/'-separated segments of a string, left to right.
RECURSIVE SplitSegments(_, _)
SplitSegments(str, segment) ==
    IF str = <<>> THEN <<segment>>
    ELSE IF Head(str) = "/"
    THEN <<segment>> \o SplitSegments(Tail(str), <<>>)
    ELSE SplitSegments(Tail(str), Append(segment, Head(str)))

\* The segment list obtained by replaying segments on top of names:
\* "." adds nothing, ".." removes the segment before it.
RECURSIVE ReplayNames(_, _)
ReplayNames(names, segments) ==
    IF segments = <<>> THEN names
    ELSE IF Head(segments) = <<".">> THEN ReplayNames(names, Tail(segments))
    ELSE IF Head(segments) = <<".", ".">>
    THEN ReplayNames(IF names = <<>> THEN names
                     ELSE SubSeq(names, 1, Len(names) - 1), Tail(segments))
    ELSE ReplayNames(Append(names, Head(segments)), Tail(segments))

\* Replaying segments from a path of the given depth steps above the root.
RECURSIVE StepsAboveRoot(_, _)
StepsAboveRoot(depth, segments) ==
    IF segments = <<>> THEN FALSE
    ELSE IF Head(segments) = <<".">> THEN StepsAboveRoot(depth, Tail(segments))
    ELSE IF Head(segments) = <<".", ".">>
    THEN depth = 0 \/ StepsAboveRoot(depth - 1, Tail(segments))
    ELSE StepsAboveRoot(depth + 1, Tail(segments))

\* The structure of a path: its segment list and the marker ending its chain.
Shape(h, ref) == <<PathResources(h, ref), WalkCursor(h, ref)>>

StrXYZ == <<"x", "/", "y", "/", ".", ".", "/", "z">>
StrXZ == <<"x", "/", "z">>
StrAB == <<"/", "a", "/", "b">>
StrUpUp == <<".", ".", "/", ".", ".">>

\* ------------------------------------------------------------------------
\* Properties
\* ------------------------------------------------------------------------

\* C1: resolving a relative path (a chain ending at undefined) against a
\* base succeeds with a path whose root-to-leaf segment list is the list of
\* the base followed by the segments of the path, "." adding nothing and
\* ".." removing the segment before it.
C1_ResolveAppendsToBase ==
    (last.op = "resolve" /\ WalkCursor(heap, last.path) = UNDEF)
        => /\ last.kind = "ok"
           /\ PathResources(heap, last.val)
                = ReplayNames(PathResources(heap, last.current),
                              PathResources(heap, last.path))

\* C2: a string is parsed segment by segment, so resolving "x/y/../z"
\* against a base gives a path structurally identical to the one obtained by
\* resolving "x/z" against the same base.
C2_StringNormalises ==
    (last.op = "resolveString" /\ last.str = StrXYZ)
        => /\ last.kind = "ok"
           /\ LET other == resolvePathString(heap, last.current, StrXZ) IN
              /\ other.kind = "ok"
              /\ Shape(heap, last.val) = Shape(other.heap, other.val)

\* C3: resolving the string "/a/b" against any base gives the absolute path
\* with the segments a, b, whose chain reaches null after two parent steps.
C3_AbsoluteStringIgnoresBase ==
    (last.op = "resolveString" /\ last.str = StrAB)
        => /\ last.kind = "ok"
           /\ Shape(heap, last.val) = << << <<"a">>, <<"b">> >>, NULL >>

\* C4: resolving a relative string whose ".." segments step above the root
\* of an absolute base throws a SyntaxError and returns no path.
C4_AboveRootThrows ==
    (/\ last.op = "resolveString"
     /\ last.str # <<>>
     /\ Head(last.str) # "/"
     /\ WalkCursor(heap, last.current) = NULL
     /\ StepsAboveRoot(Len(PathResources(heap, last.current)),
                       SplitSegments(last.str, <<>>)))
        => last.kind = "SyntaxError"

\* C5: create(".", parent) and create("..", parent) either return the very
\* same parent without allocating a node or throw a SyntaxError: the parent
\* is returned when it is a relative path, the SyntaxError is thrown when it
\* is an absolute path, and nothing else happens.
C5_DotReturnsParentOrSyntaxError ==
    (last.op = "create" /\ last.name \in DotNames)
        => /\ \/ last.kind = "ok" /\ last.val = last.parent /\ last.alloc = 0
              \/ last.kind = "SyntaxError"
           /\ (IsNode(last.parent) /\ WalkCursor(heap, last.parent) = UNDEF)
                 => last.kind = "ok"
           /\ (IsNode(last.parent) /\ WalkCursor(heap, last.parent) = NULL)
                 => last.kind = "SyntaxError"

\* C6: isAbsolute and isRelative return a boolean for null, undefined and
\* every created path: isAbsolute is true exactly when the chain ends at
\* null, isRelative exactly when it ends at undefined.
C6_PredicatesFollowTerminal ==
    /\ last.op = "isAbsolute"
          => last.kind = "ok" /\ last.bool = (WalkCursor(heap, last.path) = NULL)
    /\ last.op = "isRelative"
          => last.kind = "ok" /\ last.bool = (WalkCursor(heap, last.path) = UNDEF)

\* C7: for a non-empty name other than "." and ".." and any parent, create
\* returns a new node with that name and exactly that parent.
C7_CreateKeepsNameAndParent ==
    (last.op = "create" /\ last.name # <<>> /\ last.name \notin DotNames)
        => /\ last.kind = "ok"
           /\ last.alloc = 1
           /\ last.val = Len(heap)
           /\ heap[last.val].name = last.name
           /\ heap[last.val].parent = last.parent

C7_Witness ==
    /\ last.op = "create" /\ last.name = <<"a">> /\ last.kind = "ok"
    /\ IsNode(last.parent) /\ heap[last.val].parent = last.parent

\* C8: create with the empty name throws a SyntaxError for every parent and
\* produces no node.
C8_EmptyNameThrows ==
    (last.op = "create" /\ last.name = <<>>)
        => last.kind = "SyntaxError" /\ last.alloc = 0 /\ ~IsNode(last.val)

C8_Witness ==
    /\ last.op = "create" /\ last.name = <<>> /\ last.kind = "SyntaxError"
    /\ IsNode(last.parent)

\* C9: after any sequence of create and resolve calls no node has the name
\* "", "." or "..".
C9_NoEmptyOrDotNode ==
    \A i \in DOMAIN heap : heap[i].name # <<>> /\ heap[i].name \notin DotNames

C9_Witness ==
    /\ last.op \in {"resolve", "resolveString"} /\ last.kind = "ok"
    /\ IsNode(last.val) /\ last.alloc > 0
    /\ \E i \in DOMAIN heap : IsNode(heap[i].parent)

\* C10: every node carries an absolute and a relative flag of which exactly
\* one is true: absolute iff its chain ends at null, relative iff it ends at
\* undefined.
C10_FlagsFollowTerminal ==
    \A i \in DOMAIN heap :
        /\ heap[i].absolute = (WalkCursor(heap, i) = NULL)
        /\ heap[i].relative = (WalkCursor(heap, i) = UNDEF)
        /\ heap[i].absolute # heap[i].relative

C10_Witness ==
    /\ last.op = "create" /\ last.kind = "ok"
    /\ IsNode(last.parent) /\ heap[last.val].absolute
    /\ \E i \in DOMAIN heap : heap[i].relative

\* C11: paths are immutable: no call of create or resolve, whether it returns
\* or throws, changes the name, the parent or the flags of a node that
\* existed before the call.
C11_NodesImmutable ==
    [][\A i \in DOMAIN heap : i \in DOMAIN heap' /\ heap'[i] = heap[i]]_vars

C11_Witness ==
    /\ last.op \in {"create", "resolve", "resolveString"}
    /\ last.alloc >= 1
    /\ Len(heap) - last.alloc >= 1
    /\ last.op = "create" => IsNode(last.parent)
    /\ last.op # "create" => IsNode(last.current)

\* The value a store call was given, as a Skill.
EventValue(e) == Skill(e.body.name, e.body.description)

\* C15: get(k), update(k, v) and delete(k) for a key that is not in the store
\* reject with a RangeError and leave the entries unchanged; none resolves
\* or creates an entry for k.
C15_MissingKeyRejects ==
    [][(event'.op \in {"get", "update", "delete"} /\ ~MapHas(skills, event'.key))
          => /\ event'.kind = "rejected"
             /\ event'.error = "RangeError"
             /\ skills' = skills]_vars

C15_Witness ==
    /\ event.op = "update" /\ event.kind = "rejected"
    /\ event.key \in issued /\ ~MapHas(skills, event.key)

\* C16: create(v) resolves with a key k under which v is stored; operations on
\* other keys leave the entry of k alone; get(k) resolves to the stored value;
\* delete(k) resolves true and removes k; and from then on k stays absent and
\* get(k) rejects with a RangeError.
C16_CrudRoundTrip ==
    [][/\ event'.op = "create"
            => /\ event'.kind = "resolved"
               /\ MapHas(skills', event'.rkey)
               /\ MapGet(skills', event'.rkey) = EventValue(event')
       /\ \A k \in MapKeys(skills) :
            event'.key # k
                => MapHas(skills', k) /\ MapGet(skills', k) = MapGet(skills, k)
       /\ (event'.op = "get" /\ MapHas(skills, event'.key))
            => /\ event'.kind = "resolved"
               /\ event'.rvalue = MapGet(skills, event'.key)
       /\ (event'.op = "delete" /\ MapHas(skills, event'.key))
            => /\ event'.kind = "resolved"
               /\ event'.rbool = TRUE
               /\ ~MapHas(skills', event'.key)
       /\ \A k \in issued \ MapKeys(skills) :
            /\ ~MapHas(skills', k)
            /\ (event'.op = "get" /\ event'.key = k)
                 => event'.kind = "rejected" /\ event'.error = "RangeError"
      ]_vars

C16_Witness ==
    /\ event.op = "get" /\ event.kind = "rejected" /\ event.error = "RangeError"
    /\ event.key \in issued
    /\ \E k \in issued : MapHas(skills, k)

\* C17: every create returns a key that was not in the store and that no
\* earlier create returned; it adds one entry and keeps every other entry.
C17_CreateKeyIsFresh ==
    [][event'.op = "create"
          => /\ event'.kind = "resolved"
             /\ ~MapHas(skills, event'.rkey)
             /\ event'.rkey \notin issued
             /\ Len(skills') = Len(skills) + 1
             /\ \A k \in MapKeys(skills) :
                    MapHas(skills', k) /\ MapGet(skills', k) = MapGet(skills, k)
      ]_vars

C17_Witness ==
    /\ event.op = "create" /\ event.kind = "resolved"
    /\ Cardinality(issued) = 2
    /\ MapKeys(skills) = issued

\* C18: bound without a body decoder, every create and every full-update
\* request is answered 405, neither create nor update of the store is
\* invoked, and the store is unchanged.
C18_NoDecoderMethodNotAllowed ==
    [][(event'.op \in {"POST create", "POST update"} /\ binding.parser = "none")
          => /\ event'.status = 405
             /\ event'.calls = <<>>
             /\ skills' = skills]_vars

C18_Witness ==
    /\ binding.parser = "none"
    /\ event.op = "POST update" /\ event.status = 405
    /\ MapHas(skills, event.key) /\ ~event.body.array

C20_DecoderFailureBadRequest ==
    [][(/\ event'.op \in {"POST create", "POST update"}
        /\ binding.parser \in {"sync", "async"}
        /\ event'.body.array)
          => /\ event'.status = 400
             /\ {"message", "resource", "value"} \subseteq event'.fields
             /\ event'.echo = event'.body
             /\ event'.rname = ResourceName
             /\ event'.calls = <<>>
             /\ skills' = skills]_vars

C20_Witness ==
    /\ event.op = "POST update" /\ event.body.array /\ event.status = 400
    /\ MapHas(skills, event.key)
    /\ binding.parser = "async"

C13_NoRecordMethodNotAllowed ==
    [][(event'.op = "PATCH item" /\ ~binding.record)
          => /\ event'.status = 405
             /\ event'.calls = <<>>
             /\ skills' = skills]_vars

C13_Witness ==
    /\ event.op = "PATCH item" /\ ~binding.record
    /\ event.batch = ValidBatch /\ event.ctype = "application/json"
    /\ MapHas(skills, event.key)
    /\ event.status = 405

\* The status the outcome of applying a batch is to be answered with.
StatusOfAdjust(settled) ==
    IF settled.kind = "resolved" THEN 204
    ELSE IF settled.error = "RangeError" THEN 404
    ELSE 400

\* C14: a PATCH request on a record-capable resource whose body decodes to a
\* change list is answered by the result of applying the batch: 204 on
\* success, 404 when the key is not found, 400 on a syntax failure.
C14_PatchFollowsAdjust ==
    [][(/\ event'.op = "PATCH item"
        /\ binding.record
        /\ event'.ctype \in {"application/json", "application/xml"})
          => event'.status
               = StatusOfAdjust(Adjust(skills, issued, event'.key, event'.batch))]_vars

\* C28: a store operation touches only the addressed key. A resolved
\* update(k, v) keeps the set of keys and sets the value at k; a resolved
\* delete(k) removes k and nothing else; create adds exactly one entry; get
\* and getAll leave the table as it was; and every operation leaves the value
\* under every key other than the addressed one unchanged.
C28_OnlyAddressedKeyTouched ==
    [][/\ (event'.op = "update" /\ event'.kind = "resolved")
            => /\ MapKeys(skills') = MapKeys(skills)
               /\ Len(skills') = Len(skills)
               /\ MapGet(skills', event'.key) = EventValue(event')
       /\ (event'.op = "delete" /\ event'.kind = "resolved")
            => /\ MapKeys(skills') = MapKeys(skills) \ {event'.key}
               /\ Len(skills') = Len(skills) - 1
       /\ event'.op = "create"
            => /\ MapKeys(skills') = MapKeys(skills) \cup {event'.rkey}
               /\ Len(skills') = Len(skills) + 1
       /\ event'.op \in {"get", "getAll"} => skills' = skills
       /\ \A k \in MapKeys(skills) \ {event'.key} :
            MapHas(skills', k) /\ MapGet(skills', k) = MapGet(skills, k)
      ]_vars

C28_Witness ==
    /\ event.op = "delete" /\ event.kind = "resolved" /\ event.key = 1
    /\ MapHas(skills, 2) /\ MapGet(skills, 2) = Pilot
    /\ \E k \in issued : MapHas(skills, k)

\* C21: a full-update request with a decodable body for a key that is not in
\* the store is answered 404 and leaves the store unchanged.
C21_UpdateMissingKeyNotFound ==
    [][(/\ event'.op = "POST update"
        /\ binding.parser \in {"sync", "async"}
        /\ ~event'.body.array
        /\ ~MapHas(skills, event'.key))
          => /\ event'.status = 404
             /\ skills' = skills]_vars

\* C26: a PATCH request on a record-capable resource whose content type is
\* neither application/json nor application/xml fails with the TypeError of
\* an unsupported body and is answered 400; no decoder and no operation of
\* the store is invoked, and the store is unchanged.
C26_UnsupportedContentType ==
    [][(/\ event'.op = "PATCH item"
        /\ binding.record
        /\ event'.ctype \notin {"application/json", "application/xml"})
          => /\ event'.kind = "rejected"
             /\ event'.error = "TypeError"
             /\ event'.status = 400
             /\ event'.calls = <<>>
             /\ skills' = skills]_vars

C26_Witness ==
    /\ event.op = "PATCH item" /\ binding.record
    /\ event.ctype = "text/plain" /\ event.batch = ValidBatch
    /\ MapHas(skills, event.key)
    /\ event.status = 400 /\ event.error = "TypeError"

\* The number of times adjust occurs in a list of invoked operations.
AdjustCalls(calls) == Len(SelectSeq(calls, LAMBDA c : c = "adjust"))

\* C27: handling a PATCH request on a record-capable resource whose body is
\* a change list of a supported content type, adjust is invoked exactly once
\* and with that list: the store is left as adjust leaves it for the batch
\* in body order.
C27_AdjustOnceWithBatch ==
    [][(/\ event'.op = "PATCH item"
        /\ binding.record
        /\ event'.ctype \in {"application/json", "application/xml"})
          => /\ AdjustCalls(event'.calls) = 1
             /\ skills' = Adjust(skills, issued, event'.key, event'.batch).skills
      ]_vars

\* C22: for a get-by-key and a delete-by-key request, a rejection of the
\* store with a RangeError is answered 404, and every other failure of the
\* store, thrown by the call or delivered as a rejection, is answered with a
\* 5xx status.
C22_FailureKindDecidesStatus ==
    [][event'.op \in {"GET item", "DELETE item"}
          => /\ (event'.kind = "rejected" /\ event'.error = "RangeError")
                  => event'.status = 404
             /\ (\/ event'.kind = "thrown"
                 \/ event'.kind = "rejected" /\ event'.error # "RangeError")
                  => event'.status >= 500]_vars

\* C23: every error response, of every handler and on every failure path,
\* has a body with a message field and a resource field that holds the name
\* of the resource.
C23_ErrorBodyHasMessageAndResource ==
    [][event'.status >= 400
          => /\ {"message", "resource"} \subseteq event'.fields
             /\ event'.rname = ResourceName]_vars

\* The requests that reach a registered handler.
RequestOps ==
    {"GET list", "GET item", "POST create", "POST update", "PUT item",
     "PATCH item", "DELETE item"}

\* C24: when a handler and the continuations it registered have run, the
\* request has received exactly one response, whether the store call
\* resolved, threw or rejected.
C24_ExactlyOneResponse ==
    [][event'.op \in RequestOps => event'.sent = 1]_vars

\* The table after the store operation a request invoked, applied as a whole
\* to the table m: an update sets the value of a key of m, a delete removes
\* the key, and anything else leaves m as it is.
SequentialEffect(m, e) ==
    IF e.calls = <<"update">> /\ MapHas(m, e.key)
    THEN MapSet(m, e.key, EventValue(e))
    ELSE IF e.calls = <<"delete">> THEN MapDelete(m, e.key)
    ELSE m

\* C25: under every interleaving of update and delete requests, an update
\* that reaches the store when its key is gone rejects with a RangeError and
\* does not re-create the key, and every step changes the store by one whole
\* operation applied to the store as it is, so that the store always is the
\* result of the operations in the order in which they reached it.
C25_StoreOperationsAtomic ==
    [][/\ (event'.calls = <<"update">> /\ ~MapHas(skills, event'.key))
            => /\ event'.kind = "rejected"
               /\ event'.error = "RangeError"
               /\ ~MapHas(skills', event'.key)
       /\ skills' = SequentialEffect(skills, event')]_vars

C25_Witness ==
    /\ event.op = "POST update" /\ event.calls = <<"update">>
    /\ event.kind = "rejected" /\ event.error = "RangeError"
    /\ ~MapHas(skills, event.key)
    /\ \E i \in DOMAIN inflight :
          /\ inflight[i].stage = "answered"
          /\ inflight[i].key = event.key
          /\ inflight[i].present
    /\ \E j \in DOMAIN inflight : inflight[j].stage = "decoding"

====
